---------------------------- MODULE Spec2Model ----------------------------
(***************************************************************************)
(* Model of the QSS crypto analyzer tool                                   *)
(* (src/src/mastra/agents/qss-agent/qss-tool.ts).                          *)
(*                                                                         *)
(* Numbers.  The tool computes with IEEE doubles; the model computes with  *)
(* exact integers and rationals.  Candle prices are integers ("ticks").    *)
(* Every comparison of the source that involves a decimal factor or a      *)
(* division is cross-multiplied, so that it is decided exactly:            *)
(*     bodySize > avgBody * 1.5   <=>   20 * bodySize > 3 * sum(bodies)    *)
(* A value that need not be an integer is kept as a fixed-point integer or *)
(* as a fraction [num, den]; each such field says so where it is built.    *)
(* NaN (parseFloat of a missing field, 0/0) is modelled explicitly where   *)
(* the source can produce it: every comparison with NaN is FALSE.          *)
(* null is the empty sequence Null, a present value v is Some(v).          *)
(***************************************************************************)
EXTENDS Integers, Sequences, FiniteSets, TLC

VARIABLES
    market,     \* the exchange's kline history for the symbol, oldest first
    motif,      \* the moves the feed has drawn so far (environment)
    pc,         \* position of qssTool.execute: idle, getCurrentPrice, ...
    req,        \* the action of the request being executed
    priceData,  \* what getCurrentPrice returned to performFullAnalysis
    fetched,    \* what the fetches of this execute were answered, in order
    output,     \* the value execute returned (Null while running)
    det,        \* results of the five analytical components on the candles
    sigIn,      \* arguments of a direct call of generateTradingSignals
    signals     \* its return value

vars == <<market, motif, pc, req, priceData, fetched, output, det, sigIn, signals>>

----------------------------------------------------------------------------
(* Bounds of the model *)

\* longest kline history the feed produces
MaxCandles == 42
\* number of freely chosen moves; the feed then repeats them periodically
MotifLen == 6
\* the same, for the histories the tool's execute is run on
ShortMotif == 2
\* longest candle sequence handed directly to detectFairValueGaps
MaxFvgLen == 5
\* most zones, over the four lists together, handed directly to
\* generateTradingSignals
MaxZones == 4

----------------------------------------------------------------------------
(* Values *)

Null == <<>>
Some(v) == <<v>>
Val(o) == o[1]

Abs(x) == IF x < 0 THEN -x ELSE x
Min2(a, b) == IF a <= b THEN a ELSE b
Max2(a, b) == IF a >= b THEN a ELSE b

\* Array.prototype.slice(start, end), 0-based, negative indices from the end
Slice(s, start, end) ==
    LET len == Len(s)
        st  == IF start < 0 THEN Max2(len + start, 0) ELSE Min2(start, len)
        en  == IF end < 0 THEN Max2(len + end, 0) ELSE Min2(end, len)
    IN  SubSeq(s, st + 1, en)

\* Array.prototype.slice(start)
SliceFrom(s, start) == Slice(s, start, Len(s))

\* s[i] of the source (0-based)
At(s, i) == s[i + 1]

RECURSIVE SumSeq(_)
SumSeq(s) == IF s = <<>> THEN 0 ELSE Head(s) + SumSeq(Tail(s))

\* Math.max(...s), Math.min(...s) for a non-empty s
MaxOf(s) == CHOOSE x \in {s[k] : k \in 1..Len(s)} : \A k \in 1..Len(s) : s[k] <= x
MinOf(s) == CHOOSE x \in {s[k] : k \in 1..Len(s)} : \A k \in 1..Len(s) : s[k] >= x

Highs(cs) == [k \in 1..Len(cs) |-> cs[k].high]
Lows(cs) == [k \in 1..Len(cs) |-> cs[k].low]
Body(c) == Abs(c.close - c.open)

----------------------------------------------------------------------------
(* determineHTFBias *)

\* the swing counts over candles.slice(-10) and the decision on them
biasOfRecent(candles) ==
    LET recent == SliceFrom(candles, -10)
        highs == Highs(recent)
        lows == Lows(recent)
        idx == 1..(Len(highs) - 1)
        higherHighs == Cardinality({i \in idx : At(highs, i) > At(highs, i - 1)})
        lowerHighs == Cardinality({i \in idx : ~(At(highs, i) > At(highs, i - 1))})
        higherLows == Cardinality({i \in idx : At(lows, i) > At(lows, i - 1)})
        lowerLows == Cardinality({i \in idx : ~(At(lows, i) > At(lows, i - 1))})
    IN  IF higherHighs > lowerHighs /\ higherLows > lowerLows THEN "BULLISH"
        ELSE IF lowerHighs > higherHighs /\ lowerLows > higherLows THEN "BEARISH"
        ELSE "NEUTRAL"

\* the estimator without its length guard
determineHTFBiasUnguarded(candles) == biasOfRecent(candles)

determineHTFBias(candles) ==
    IF Len(candles) < 10 THEN "NEUTRAL" ELSE biasOfRecent(candles)

----------------------------------------------------------------------------
(* findSignificantLevels, identifyKeyLevels *)

lookback == 5

\* the inner loop with > and < for >= and <=: an equal neighbour no longer
\* disqualifies
isSignificantTiesAllowed(prices, i, isResistance) ==
    \A j \in (i - lookback)..(i + lookback) :
        \/ j = i
        \/ /\ ~(isResistance /\ At(prices, j) > At(prices, i))
           /\ ~(~isResistance /\ At(prices, j) < At(prices, i))

\* the inner loop over j: isSignificant after the window [i-lookback, i+lookback]
isSignificant(prices, i, isResistance) ==
    \A j \in (i - lookback)..(i + lookback) :
        \/ j = i
        \/ /\ ~(isResistance /\ At(prices, j) >= At(prices, i))
           /\ ~(~isResistance /\ At(prices, j) <= At(prices, i))

\* the outer loop from index i on, levels being the array built so far
RECURSIVE levelsLoop(_, _, _, _)
levelsLoop(prices, isResistance, i, levels) ==
    IF i < Len(prices) - lookback
    THEN levelsLoop(prices, isResistance, i + 1,
                    IF isSignificant(prices, i, isResistance)
                    THEN Append(levels, At(prices, i)) ELSE levels)
    ELSE levels

\* the local array `levels` when the loop ends
allLevels(prices, isResistance) == levelsLoop(prices, isResistance, lookback, <<>>)

LevelsKept(levels) == SliceFrom(levels, -5)

findSignificantLevels(prices, isResistance) ==
    LevelsKept(allLevels(prices, isResistance))

identifyKeyLevels(candles) ==
    [support |-> findSignificantLevels(Lows(candles), FALSE),
     resistance |-> findSignificantLevels(Highs(candles), TRUE)]

----------------------------------------------------------------------------
(* detectOrderBlocks *)

\* sum of the bodies of candles.slice(i - 5, i + 5); avgBody is this / 10.
\* The loop keeps 5 <= i < candles.length - 5, so the slice is the ten
\* candles i - 5 .. i + 4 and the reduce over it is written out.
windowBodySum(candles, i) ==
    Body(At(candles, i - 5)) + Body(At(candles, i - 4))
    + Body(At(candles, i - 3)) + Body(At(candles, i - 2))
    + Body(At(candles, i - 1)) + Body(At(candles, i))
    + Body(At(candles, i + 1)) + Body(At(candles, i + 2))
    + Body(At(candles, i + 3)) + Body(At(candles, i + 4))

\* bodySize > avgBody * 1.5
isMomentumCandle(candles, i) ==
    20 * Body(At(candles, i)) > 3 * windowBodySum(candles, i)

\* the confirmation looking at the next candle only
strongMoveNextOnly(candles, i) ==
    LET candle == At(candles, i)
        nextCandles == Slice(candles, i + 1, i + 2)
    IN  \E k \in 1..Len(nextCandles) :
          \/ candle.close < candle.open /\ 50 * nextCandles[k].low < 49 * candle.low
          \/ candle.close > candle.open /\ 50 * nextCandles[k].high > 51 * candle.high

\* the loop over nextCandles = candles.slice(i + 1, i + 4)
strongMove(candles, i) ==
    LET candle == At(candles, i)
        nextCandles == Slice(candles, i + 1, i + 4)
    IN  \E k \in 1..Len(nextCandles) :
          \/ candle.close < candle.open /\ 50 * nextCandles[k].low < 49 * candle.low
          \/ candle.close > candle.open /\ 50 * nextCandles[k].high > 51 * candle.high

\* strength = bodySize / avgBody, as the fraction num / den
obStrength(candles, i) ==
    [num |-> 10 * Body(At(candles, i)), den |-> windowBodySum(candles, i)]

\* price is kept in half-ticks: twice (candle.open + candle.low) / 2
bullishOB(candles, i) ==
    [price |-> At(candles, i).open + At(candles, i).low,
     strength |-> obStrength(candles, i)]

\* price is kept in half-ticks: twice (candle.open + candle.high) / 2
bearishOB(candles, i) ==
    [price |-> At(candles, i).open + At(candles, i).high,
     strength |-> obStrength(candles, i)]

\* the main loop from index i on; obs = [bullish, bearish] built so far
RECURSIVE orderBlocksLoop(_, _, _)
orderBlocksLoop(candles, i, obs) ==
    IF i < Len(candles) - 5
    THEN orderBlocksLoop(candles, i + 1,
           IF isMomentumCandle(candles, i) /\ strongMove(candles, i)
           THEN IF At(candles, i).close < At(candles, i).open
                THEN [obs EXCEPT !.bullish = Append(@, bullishOB(candles, i))]
                ELSE [obs EXCEPT !.bearish = Append(@, bearishOB(candles, i))]
           ELSE obs)
    ELSE obs

\* the local arrays bullishOBs, bearishOBs when the loop ends
allOrderBlocks(candles) ==
    orderBlocksLoop(candles, 5, [bullish |-> <<>>, bearish |-> <<>>])

\* the first three kept instead of the last three
ZonesKeptOldest(zones) == Slice(zones, 0, 3)

ZonesKept(zones) == SliceFrom(zones, -3)

detectOrderBlocks(candles) ==
    LET obs == allOrderBlocks(candles)
    IN  [bullish |-> ZonesKept(obs.bullish), bearish |-> ZonesKept(obs.bearish)]

----------------------------------------------------------------------------
(* detectFairValueGaps *)

\* 3 * avgRange of the triple around index i
rangeSum(prev, curr, next) ==
    prev.high - prev.low + curr.high - curr.low + next.high - next.low

\* the threshold test with >= for >
GapAcceptedInclusive(gapSize, sum3) == 30 * gapSize >= sum3

\* gapSize > avgRange * 0.1, with avgRange = rangeSum / 3
GapAccepted(gapSize, sum3) == 30 * gapSize > sum3

bullishGapAt(candles, i) ==
    LET prev == At(candles, i - 1)
        curr == At(candles, i)
        next == At(candles, i + 1)
    IN  /\ next.low > prev.high
        /\ GapAccepted(next.low - prev.high, rangeSum(prev, curr, next))

bearishGapAt(candles, i) ==
    LET prev == At(candles, i - 1)
        curr == At(candles, i)
        next == At(candles, i + 1)
    IN  /\ next.high < prev.low
        /\ GapAccepted(prev.low - next.high, rangeSum(prev, curr, next))

RECURSIVE fvgLoop(_, _, _)
fvgLoop(candles, i, fvgs) ==
    IF i < Len(candles) - 1
    THEN LET prev == At(candles, i - 1)
             next == At(candles, i + 1)
             b1 == IF bullishGapAt(candles, i)
                   THEN [fvgs EXCEPT !.bullish =
                            Append(@, [high |-> next.low, low |-> prev.high])]
                   ELSE fvgs
             b2 == IF bearishGapAt(candles, i)
                   THEN [b1 EXCEPT !.bearish =
                            Append(@, [high |-> prev.low, low |-> next.high])]
                   ELSE b1
         IN  fvgLoop(candles, i + 1, b2)
    ELSE fvgs

\* the local arrays bullishFVGs, bearishFVGs when the loop ends
allFairValueGaps(candles) ==
    fvgLoop(candles, 1, [bullish |-> <<>>, bearish |-> <<>>])

detectFairValueGaps(candles) ==
    LET fvgs == allFairValueGaps(candles)
    IN  [bullish |-> ZonesKept(fvgs.bullish), bearish |-> ZonesKept(fvgs.bearish)]

----------------------------------------------------------------------------
(* analyzeMarketStructure *)

\* sa / na > sb / nb for the averages of two halves; 0 / 0 is NaN and
\* every comparison with NaN is false
AvgGreater(sa, na, sb, nb) == na > 0 /\ nb > 0 /\ sa * nb > sb * na

\* the trend analysis with the two halves exchanged
structureTrendSwapped(recent) ==
    LET firstHalf == SliceFrom(recent, 10)
        secondHalf == Slice(recent, 0, 10)
        n1 == Len(firstHalf)
        n2 == Len(secondHalf)
        firstHigh == SumSeq(Highs(firstHalf))
        secondHigh == SumSeq(Highs(secondHalf))
        firstLow == SumSeq(Lows(firstHalf))
        secondLow == SumSeq(Lows(secondHalf))
    IN  IF AvgGreater(secondHigh, n2, firstHigh, n1)
           /\ AvgGreater(secondLow, n2, firstLow, n1)
        THEN [trend |-> "UPTREND", lastBOS |-> Some("Bullish BOS detected")]
        ELSE IF AvgGreater(firstHigh, n1, secondHigh, n2)
                /\ AvgGreater(firstLow, n1, secondLow, n2)
        THEN [trend |-> "DOWNTREND", lastBOS |-> Some("Bearish BOS detected")]
        ELSE [trend |-> "SIDEWAYS", lastBOS |-> Null]

\* the trend analysis on the last-20 window
structureTrend(recent) ==
    LET firstHalf == Slice(recent, 0, 10)
        secondHalf == SliceFrom(recent, 10)
        n1 == Len(firstHalf)
        n2 == Len(secondHalf)
        firstHigh == SumSeq(Highs(firstHalf))
        secondHigh == SumSeq(Highs(secondHalf))
        firstLow == SumSeq(Lows(firstHalf))
        secondLow == SumSeq(Lows(secondHalf))
    IN  IF AvgGreater(secondHigh, n2, firstHigh, n1)
           /\ AvgGreater(secondLow, n2, firstLow, n1)
        THEN [trend |-> "UPTREND", lastBOS |-> Some("Bullish BOS detected")]
        ELSE IF AvgGreater(firstHigh, n1, secondHigh, n2)
                /\ AvgGreater(firstLow, n1, secondLow, n2)
        THEN [trend |-> "DOWNTREND", lastBOS |-> Some("Bearish BOS detected")]
        ELSE [trend |-> "SIDEWAYS", lastBOS |-> Null]

breaksHigh(recent, i) ==
    At(recent, i).high > MaxOf(Highs(Slice(recent, i - 5, i)))

breaksLow(recent, i) ==
    At(recent, i).low < MinOf(Lows(Slice(recent, i - 5, i)))

\* the CHOCH loop keeping the first detection instead of the last
RECURSIVE chochLoopFirstWins(_, _, _)
chochLoopFirstWins(recent, i, lastCHOCH) ==
    IF i < Len(recent) - 5
    THEN chochLoopFirstWins(recent, i + 1,
           IF lastCHOCH = Null /\ (breaksHigh(recent, i) \/ breaksLow(recent, i))
           THEN IF breaksHigh(recent, i) THEN Some("Bullish CHOCH")
                                         ELSE Some("Bearish CHOCH")
           ELSE lastCHOCH)
    ELSE lastCHOCH

\* the CHOCH loop from index i on, lastCHOCH being the value so far
RECURSIVE chochLoop(_, _, _)
chochLoop(recent, i, lastCHOCH) ==
    IF i < Len(recent) - 5
    THEN chochLoop(recent, i + 1,
           IF breaksHigh(recent, i) \/ breaksLow(recent, i)
           THEN IF breaksHigh(recent, i) THEN Some("Bullish CHOCH")
                                         ELSE Some("Bearish CHOCH")
           ELSE lastCHOCH)
    ELSE lastCHOCH

analyzeMarketStructure(candles) ==
    LET recent == SliceFrom(candles, -20)
        t == structureTrend(recent)
    IN  [trend |-> t.trend,
         lastCHOCH |-> chochLoop(recent, 5, Null),
         lastBOS |-> t.lastBOS]

----------------------------------------------------------------------------
(* generateTradingSignals *)

\* a number in ticks, and NaN
Num(v) == [nan |-> FALSE, v |-> v]
NaN == [nan |-> TRUE, v |-> 0]

\* Signal prices are fixed-point: PriceScale units per tick, so that the
\* products of a half-tick order-block price with 0.999 ... 1.045 and of a
\* zone bound with 0.94 ... 1.06 are exact.
PriceScale == 2 * 1000

\* Math.abs(currentPrice - ob.price) / currentPrice < 0.002, ob.price being
\* in half-ticks.  Division by 0 gives Infinity or NaN (false); a negative
\* currentPrice gives a quotient <= 0 (true).
priceInZone(currentPrice, ob) ==
    /\ ~currentPrice.nan
    /\ IF currentPrice.v > 0
       THEN 250 * Abs(2 * currentPrice.v - ob.price) < currentPrice.v
       ELSE currentPrice.v < 0

\* the zone test without its upper bound
priceInGapNoUpperBound(currentPrice, fvg) ==
    /\ ~currentPrice.nan
    /\ currentPrice.v >= fvg.low

\* currentPrice >= fvg.low && currentPrice <= fvg.high
priceInGap(currentPrice, fvg) ==
    /\ ~currentPrice.nan
    /\ currentPrice.v >= fvg.low
    /\ currentPrice.v <= fvg.high

\* the confluence taken as bias or trend instead of both
bullishConfluenceEither(htfBias, marketStructure) ==
    htfBias = "BULLISH" \/ marketStructure.trend = "UPTREND"

bullishConfluence(htfBias, marketStructure) ==
    htfBias = "BULLISH" /\ marketStructure.trend = "UPTREND"

bearishConfluence(htfBias, marketStructure) ==
    htfBias = "BEARISH" /\ marketStructure.trend = "DOWNTREND"

\* the confidence without its cap of 90
obConfidenceUncapped(ob) ==
    [num |-> 60 * ob.strength.den + 10 * ob.strength.num,
     den |-> ob.strength.den]

\* Math.min(90, 60 + ob.strength * 10) as a fraction over the strength's den
obConfidence(ob) ==
    [num |-> Min2(90 * ob.strength.den, 60 * ob.strength.den + 10 * ob.strength.num),
     den |-> ob.strength.den]

noSignal ==
    [action |-> "WAIT", confidence |-> [num |-> 0, den |-> 1],
     entryZone |-> Null, stopLoss |-> Null, takeProfit |-> Null,
     riskReward |-> Null]

buyAtOrderBlock(ob) ==
    [action |-> "BUY", confidence |-> obConfidence(ob),
     entryZone |-> Some([high |-> ob.price * 1001, low |-> ob.price * 999]),
     stopLoss |-> Some(ob.price * 985),
     takeProfit |-> Some(ob.price * 1045),
     riskReward |-> Some(3)]

\* the bearish order block branch with the stop and target factors of the
\* bullish one
sellAtOrderBlockBuyLevels(ob) ==
    [action |-> "SELL", confidence |-> obConfidence(ob),
     entryZone |-> Some([high |-> ob.price * 1001, low |-> ob.price * 999]),
     stopLoss |-> Some(ob.price * 985),
     takeProfit |-> Some(ob.price * 1045),
     riskReward |-> Some(3)]

sellAtOrderBlock(ob) ==
    [action |-> "SELL", confidence |-> obConfidence(ob),
     entryZone |-> Some([high |-> ob.price * 1001, low |-> ob.price * 999]),
     stopLoss |-> Some(ob.price * 1015),
     takeProfit |-> Some(ob.price * 955),
     riskReward |-> Some(3)]

buyAtGap(fvg) ==
    [action |-> "BUY", confidence |-> [num |-> 70, den |-> 1],
     entryZone |-> Some([high |-> fvg.high * PriceScale, low |-> fvg.low * PriceScale]),
     stopLoss |-> Some(fvg.low * 1980),
     takeProfit |-> Some(fvg.high * 2120),
     riskReward |-> Some(2)]

\* the bearish gap branch leaving takeProfit unset
sellAtGapNoTarget(fvg) ==
    [action |-> "SELL", confidence |-> [num |-> 70, den |-> 1],
     entryZone |-> Some([high |-> fvg.high * PriceScale, low |-> fvg.low * PriceScale]),
     stopLoss |-> Some(fvg.high * 2020),
     takeProfit |-> Null,
     riskReward |-> Some(2)]

sellAtGap(fvg) ==
    [action |-> "SELL", confidence |-> [num |-> 70, den |-> 1],
     entryZone |-> Some([high |-> fvg.high * PriceScale, low |-> fvg.low * PriceScale]),
     stopLoss |-> Some(fvg.high * 2020),
     takeProfit |-> Some(fvg.low * 1880),
     riskReward |-> Some(2)]

\* for (const ob of orderBlocks.bullish) { if (...) { ...; break; } } from
\* element k on; sig is the signal so far
RECURSIVE bullishOBLoop(_, _, _, _, _)
bullishOBLoop(obs, k, currentPrice, confluence, sig) ==
    IF k > Len(obs) THEN sig
    ELSE IF priceInZone(currentPrice, obs[k]) /\ confluence
         THEN buyAtOrderBlock(obs[k])
         ELSE bullishOBLoop(obs, k + 1, currentPrice, confluence, sig)

RECURSIVE bearishOBLoop(_, _, _, _, _)
bearishOBLoop(obs, k, currentPrice, confluence, sig) ==
    IF k > Len(obs) THEN sig
    ELSE IF priceInZone(currentPrice, obs[k]) /\ confluence
         THEN sellAtOrderBlock(obs[k])
         ELSE bearishOBLoop(obs, k + 1, currentPrice, confluence, sig)

RECURSIVE bullishFVGLoop(_, _, _, _, _)
bullishFVGLoop(fvgs, k, currentPrice, confluence, sig) ==
    IF k > Len(fvgs) THEN sig
    ELSE IF priceInGap(currentPrice, fvgs[k]) /\ confluence
         THEN buyAtGap(fvgs[k])
         ELSE bullishFVGLoop(fvgs, k + 1, currentPrice, confluence, sig)

RECURSIVE bearishFVGLoop(_, _, _, _, _)
bearishFVGLoop(fvgs, k, currentPrice, confluence, sig) ==
    IF k > Len(fvgs) THEN sig
    ELSE IF priceInGap(currentPrice, fvgs[k]) /\ confluence
         THEN sellAtGap(fvgs[k])
         ELSE bearishFVGLoop(fvgs, k + 1, currentPrice, confluence, sig)

\* the two FVG loops run without the action === "WAIT" test
fvgStageUnguarded(sig, currentPrice, fvgZones, bull, bear) ==
    bearishFVGLoop(fvgZones.bearish, 1, currentPrice, bear,
      bullishFVGLoop(fvgZones.bullish, 1, currentPrice, bull, sig))

\* if (action === "WAIT") { the two FVG loops }
fvgStage(sig, currentPrice, fvgZones, bull, bear) ==
    IF sig.action = "WAIT"
    THEN bearishFVGLoop(fvgZones.bearish, 1, currentPrice, bear,
           bullishFVGLoop(fvgZones.bullish, 1, currentPrice, bull, sig))
    ELSE sig

generateTradingSignals(currentPrice, htfBias, orderBlocks, fvgZones, marketStructure) ==
    LET bull == bullishConfluence(htfBias, marketStructure)
        bear == bearishConfluence(htfBias, marketStructure)
        s1 == bullishOBLoop(orderBlocks.bullish, 1, currentPrice, bull, noSignal)
        s2 == bearishOBLoop(orderBlocks.bearish, 1, currentPrice, bear, s1)
    IN  fvgStage(s2, currentPrice, fvgZones, bull, bear)

----------------------------------------------------------------------------
(* The candle feed (environment).  A kline opens at the previous close and *)
(* moves by a body and two wicks.  The first moves are free, later ones    *)
(* repeat them periodically, which gives long histories with many swings.  *)

\* big bullish, big bearish and doji candles; the wicks make swing highs
\* and swing lows strict
Moves ==
    {[body |-> 100, up |-> 2, dn |-> 1],
     [body |-> -100, up |-> 1, dn |-> 2],
     [body |-> 0, up |-> 1, dn |-> 1]}

\* a bullish candle whose wicks overlap its neighbours: a run of them has
\* rising highs and lows, equal bodies and no three-candle gap
SteadyMove == [body |-> 100, up |-> 60, dn |-> 60]

\* the moves of the market the tool's execute is run on
AnalysisMoves == Moves \cup {SteadyMove}

FirstOpen == 25 * 100

\* a kline row of the exchange: <<openTime, open, high, low, close, volume>>
\* (BinanceKlineResponse indices 0..5; the later fields are never read)
lastClose(hist) == IF hist = <<>> THEN FirstOpen ELSE hist[Len(hist)][5]

klineAfter(hist, m) ==
    LET o == lastClose(hist)
        c == o + m.body
    IN  <<Len(hist), o, Max2(o, c) + m.up, Min2(o, c) - m.dn, c, 1>>

\* the exchange closes one more kline; prices stay positive
Tick(period, moves) ==
    /\ Len(market) < MaxCandles
    /\ \E m \in moves :
         /\ IF Len(motif) < period
            THEN motif' = Append(motif, m)
            ELSE m = motif[(Len(market) % period) + 1] /\ motif' = motif
         /\ klineAfter(market, m)[4] > 0
         /\ market' = Append(market, klineAfter(market, m))

\* klines.map((k) => ({time: k[0], open: parseFloat(k[1]), ...})); the rows
\* of the feed are well-formed, so parseFloat yields the number written
toCandle(k) ==
    [time |-> At(k, 0), open |-> At(k, 1), high |-> At(k, 2),
     low |-> At(k, 3), close |-> At(k, 4), volume |-> At(k, 5)]

\* the klines the exchange returns for limit=100
klinesResponse(hist) == SliceFrom(hist, -100)

\* getTechnicalData's data.candles: candles.slice(-50)
technicalCandles(hist) ==
    LET klines == klinesResponse(hist)
        candles == [k \in 1..Len(klines) |-> toCandle(klines[k])]
    IN  SliceFrom(candles, -50)

\* getTechnicalData's data.currentPrice: candles[candles.length - 1]?.close || 0
technicalCurrentPrice(hist) ==
    LET klines == klinesResponse(hist)
    IN  IF klines = <<>> THEN 0 ELSE toCandle(klines[Len(klines)]).close

----------------------------------------------------------------------------
(* The five analytical components of performFullAnalysis, run on candles *)

runComponents(candles) ==
    [htfBias |-> determineHTFBias(candles),
     keyLevels |-> identifyKeyLevels(candles),
     orderBlocks |-> detectOrderBlocks(candles),
     fvgZones |-> detectFairValueGaps(candles),
     marketStructure |-> analyzeMarketStructure(candles)]

Idle ==
    /\ pc = "idle" /\ req = Null /\ priceData = Null /\ output = Null
    /\ fetched = <<>> /\ sigIn = Null /\ signals = Null

Init ==
    /\ market = <<>> /\ motif = <<>> /\ det = Null
    /\ Idle

FeedTick ==
    /\ det = Null
    /\ Tick(MotifLen, Moves)
    /\ UNCHANGED <<pc, req, priceData, fetched, output, det, sigIn, signals>>

Detect ==
    /\ det = Null
    /\ LET candles == technicalCandles(market)
       IN  det' = Some(runComponents(candles))
    /\ UNCHANGED <<market, motif, pc, req, priceData, fetched, output, sigIn, signals>>

NextDetect == FeedTick \/ Detect

SpecDetect == Init /\ [][NextDetect]_vars

----------------------------------------------------------------------------
(* Direct calls of generateTradingSignals on drawn arguments *)

\* prices around 1000 ticks: 0.2% of the price is 2 ticks
SignalPrices == {Num(1000), Num(1003), NaN}

\* order blocks at 1000 and 1001.5 ticks (prices in half-ticks): both are
\* within 0.2% of 1000, only the second is within 0.2% of 1003; strengths
\* 1.6 and 4
SignalOrderBlocks ==
    {[price |-> 2000, strength |-> [num |-> 16, den |-> 10]],
     [price |-> 2003, strength |-> [num |-> 40, den |-> 10]]}

SignalGaps ==
    {[low |-> 990, high |-> 1000],
     [low |-> 1000, high |-> 1030]}

SeqsUpTo(S, n) == UNION {[1..k -> S] : k \in 0..n}

Biases == {"BULLISH", "BEARISH", "NEUTRAL"}
Trends == {"UPTREND", "DOWNTREND", "SIDEWAYS"}

\* the arguments of one call: a price, a bias, a trend and four zone lists
\* of the given lengths
SignalInputs(nBullOB, nBearOB, nBullFVG, nBearFVG) ==
    [currentPrice : SignalPrices,
     htfBias : Biases,
     orderBlocks : [bullish : [1..nBullOB -> SignalOrderBlocks],
                    bearish : [1..nBearOB -> SignalOrderBlocks]],
     fvgZones : [bullish : [1..nBullFVG -> SignalGaps],
                 bearish : [1..nBearFVG -> SignalGaps]],
     marketStructure : [trend : Trends]]

InitSignal ==
    /\ market = <<>> /\ motif = <<>> /\ det = Null
    /\ pc = "idle" /\ req = Null /\ priceData = Null /\ output = Null
    /\ fetched = <<>>
    /\ \E nBullOB \in 0..MaxZones, nBearOB \in 0..MaxZones,
          nBullFVG \in 0..MaxZones, nBearFVG \in 0..MaxZones :
          /\ nBullOB + nBearOB + nBullFVG + nBearFVG <= MaxZones
          /\ \E x \in SignalInputs(nBullOB, nBearOB, nBullFVG, nBearFVG) :
                sigIn = Some(x)
    /\ signals = Null

GenerateSignals ==
    /\ sigIn # Null /\ signals = Null
    /\ LET in == Val(sigIn)
       IN  signals' = Some(generateTradingSignals(in.currentPrice, in.htfBias,
                             in.orderBlocks, in.fvgZones, in.marketStructure))
    /\ UNCHANGED <<market, motif, pc, req, priceData, fetched, output, det, sigIn>>

NextSignal == GenerateSignals

SpecSignal == InitSignal /\ [][NextSignal]_vars

----------------------------------------------------------------------------
(* qssTool.execute, getCurrentPrice, getTechnicalData, performFullAnalysis *)

\* a JSON field of the ticker payload: a numeric string, absent, or text
Field(v) == [kind |-> "number", v |-> v]
Missing == [kind |-> "missing", v |-> 0]
Garbage == [kind |-> "text", v |-> 0]

\* parseFloat of a payload field
parseFloat(f) == IF f.kind = "number" THEN Num(f.v) ELSE NaN

goodTicker(price) ==
    [lastPrice |-> Field(price), priceChangePercent |-> Field(1),
     highPrice |-> Field(price + 100), lowPrice |-> Field(price - 100),
     volume |-> Field(1)]

\* 2xx JSON bodies of the ticker endpoint: well-formed ones at the last
\* close and at the low of the last kline, and malformed ones
tickerBodies(hist) ==
    LET close == lastClose(hist)
        low == IF hist = <<>> THEN FirstOpen ELSE hist[Len(hist)][4]
    IN  {goodTicker(close), goodTicker(low),
         [goodTicker(close) EXCEPT !.lastPrice = Missing],
         [goodTicker(close) EXCEPT !.lastPrice = Garbage],
         [goodTicker(close) EXCEPT !.volume = Missing],
         [lastPrice |-> Missing, priceChangePercent |-> Missing,
          highPrice |-> Missing, lowPrice |-> Missing, volume |-> Missing]}

\* what the fetch of an endpoint can give: a non-2xx response, a rejected
\* fetch or a body that is not JSON (response.json() rejects), a 2xx body
HttpFailures == {"non2xx", "rejected"}

\* the message of the Error thrown inside the try block of a fetch function
fetchError(failure, what) ==
    IF failure = "non2xx" THEN <<what, "statusText">> ELSE <<"rejected">>

\* getCurrentPrice's return value for a 2xx body
priceResult(body) ==
    [success |-> TRUE,
     data |-> Some([price |-> parseFloat(body.lastPrice),
                    change24h |-> parseFloat(body.priceChangePercent),
                    high24h |-> parseFloat(body.highPrice),
                    low24h |-> parseFloat(body.lowPrice),
                    volume24h |-> parseFloat(body.volume)])]

\* getTechnicalData's return value for a 2xx body
technicalResult(hist) ==
    [success |-> TRUE,
     data |-> Some([candles |-> technicalCandles(hist),
                    currentPrice |-> technicalCurrentPrice(hist)])]

\* the MarketAnalysis record performFullAnalysis assembles
marketAnalysis(price, candles) ==
    LET c == runComponents(candles)
        currentPrice == price.price
    IN  [currentPrice |-> currentPrice,
         priceChange24h |-> price.change24h,
         volume24h |-> price.volume24h,
         high24h |-> price.high24h,
         low24h |-> price.low24h,
         htfBias |-> c.htfBias,
         keyLevels |-> c.keyLevels,
         orderBlocks |-> c.orderBlocks,
         fvgZones |-> c.fvgZones,
         marketStructure |-> c.marketStructure,
         signals |-> generateTradingSignals(currentPrice, c.htfBias,
                        c.orderBlocks, c.fvgZones, c.marketStructure)]

\* the catch block of execute: {success: false, data: null, error: message}
failure(message) == [success |-> FALSE, data |-> Null, error |-> Some(message)]

\* catch blocks of getCurrentPrice, getTechnicalData and performFullAnalysis
\* prefix the message
priceFetchFailed(message) == <<"Price fetch failed">> \o message
technicalFetchFailed(message) == <<"Technical data fetch failed">> \o message
analysisFailed(message) == <<"Analysis failed">> \o message

Actions == {"analyze", "getPrice", "getTechnicals", "other"}

\* an entry of the log of answers: the endpoint, how the fetch ended
\* ("2xx", "non2xx", "rejected") and the JSON body of a 2xx answer
answer(endpoint, status, body) ==
    [endpoint |-> endpoint, status |-> status, body |-> body]

\* the exchange closes klines between requests
MarketTick ==
    /\ pc = "idle"
    /\ Tick(ShortMotif, AnalysisMoves)
    /\ UNCHANGED <<pc, req, priceData, fetched, output, det, sigIn, signals>>

\* execute is called: the switch on action, up to the first await
Execute(action) ==
    /\ pc = "idle"
    /\ req' = Some(action)
    /\ IF action \in {"analyze", "getPrice"}
       THEN pc' = "getCurrentPrice" /\ output' = output
       ELSE IF action = "getTechnicals"
       THEN pc' = "getTechnicalData" /\ output' = output
       ELSE pc' = "done" /\ output' = failure(<<"Invalid action specified">>)
    /\ UNCHANGED <<market, motif, priceData, fetched, det, sigIn, signals>>

\* the fetch of getCurrentPrice fails: the error reaches execute's catch
PriceFails(f) ==
    /\ pc = "getCurrentPrice"
    /\ LET message == priceFetchFailed(fetchError(f, "Failed to fetch price data"))
       IN  output' = failure(IF Val(req) = "analyze"
                             THEN analysisFailed(message) ELSE message)
    /\ pc' = "done"
    /\ fetched' = Append(fetched, answer("ticker", f, Null))
    /\ UNCHANGED <<market, motif, req, priceData, det, sigIn, signals>>

\* the fetch of getCurrentPrice answers 2xx with a JSON body
PriceResponds(body) ==
    /\ pc = "getCurrentPrice"
    /\ LET r == priceResult(body)
       IN  IF Val(req) = "getPrice"
           THEN pc' = "done" /\ output' = r /\ priceData' = priceData
           ELSE IF ~r.success
           THEN /\ pc' = "done" /\ priceData' = priceData
                /\ output' = failure(analysisFailed(<<"Failed to get current price">>))
           ELSE pc' = "getTechnicalData" /\ priceData' = Some(r) /\ output' = output
    /\ fetched' = Append(fetched, answer("ticker", "2xx", Some(body)))
    /\ UNCHANGED <<market, motif, req, det, sigIn, signals>>

\* the failure of the candle fetch swallowed: the analysis is assembled
\* from the price alone
TechnicalFailsPartial(f) ==
    /\ pc = "getTechnicalData"
    /\ output' = IF Val(req) = "analyze"
                 THEN [success |-> TRUE,
                       data |-> Some(marketAnalysis(Val(Val(priceData).data), <<>>))]
                 ELSE failure(technicalFetchFailed(
                                fetchError(f, "Failed to fetch technical data")))
    /\ pc' = "done"
    /\ fetched' = Append(fetched, answer("klines", f, Null))
    /\ UNCHANGED <<market, motif, req, priceData, det, sigIn, signals>>

\* the fetch of getTechnicalData fails
TechnicalFails(f) ==
    /\ pc = "getTechnicalData"
    /\ LET message ==
             technicalFetchFailed(fetchError(f, "Failed to fetch technical data"))
       IN  output' = failure(IF Val(req) = "analyze"
                             THEN analysisFailed(message) ELSE message)
    /\ pc' = "done"
    /\ fetched' = Append(fetched, answer("klines", f, Null))
    /\ UNCHANGED <<market, motif, req, priceData, det, sigIn, signals>>

\* the fetch of getTechnicalData answers 2xx with the klines; for analyze
\* the rest of performFullAnalysis runs without another await
TechnicalResponds ==
    /\ pc = "getTechnicalData"
    /\ LET r == technicalResult(market)
       IN  IF Val(req) = "getTechnicals"
           THEN output' = r
           ELSE IF ~r.success
           THEN output' = failure(analysisFailed(<<"Failed to get technical data">>))
           ELSE output' = [success |-> TRUE,
                           data |-> Some(marketAnalysis(Val(Val(priceData).data),
                                                        Val(r.data).candles))]
    /\ pc' = "done"
    /\ fetched' = Append(fetched, answer("klines", "2xx", Some(klinesResponse(market))))
    /\ UNCHANGED <<market, motif, req, priceData, det, sigIn, signals>>

Next ==
    \/ MarketTick
    \/ \E action \in Actions : Execute(action)
    \/ \E f \in HttpFailures : PriceFails(f)
    \/ \E body \in tickerBodies(market) : PriceResponds(body)
    \/ \E f \in HttpFailures : TechnicalFails(f)
    \/ TechnicalResponds

Spec == Init /\ [][Next]_vars

----------------------------------------------------------------------------
(* Direct calls of the components on short drawn candle sequences, with    *)
(* gaps of exactly and of more than 10% of the average range               *)

\* [low, high] of a candle: ranges are 10, so avgRange * 0.1 is 1 tick
GapShapes ==
    {[low |-> 100, high |-> 110],
     [low |-> 111, high |-> 121],
     [low |-> 112, high |-> 122],
     [low |-> 89, high |-> 99],
     [low |-> 88, high |-> 98]}

gapKline(k, shape) == <<k - 1, shape.low, shape.high, shape.low, shape.high, 1>>

GapHistories ==
    {[k \in 1..Len(shapes) |-> gapKline(k, shapes[k])] :
        shapes \in SeqsUpTo(GapShapes, MaxFvgLen)}

InitFVG ==
    /\ market \in GapHistories
    /\ motif = <<>> /\ det = Null
    /\ Idle

NextFVG == Detect

SpecFVG == InitFVG /\ [][NextFVG]_vars

----------------------------------------------------------------------------
(* Claims *)

\* the candles the components were run on, and their results
candlesSeen == technicalCandles(market)
results == Val(det)

\* C1: for every candle sequence of fewer than 20 candles,
\* analyzeMarketStructure returns trend SIDEWAYS with lastCHOCH = null and
\* lastBOS = null.
C1_ShortHistoryIsSideways ==
    (det # Null /\ Len(candlesSeen) < 20) =>
        /\ results.marketStructure.trend = "SIDEWAYS"
        /\ results.marketStructure.lastCHOCH = Null
        /\ results.marketStructure.lastBOS = Null

\* the arguments and the result of a direct call of generateTradingSignals
args == Val(sigIn)
signal == Val(signals)

\* C2: for every BUY or SELL signal on a positive current price, the
\* take-profit distance from the current price is at least twice the
\* stop-loss distance from it (all in PriceScale units per tick).
C2_RewardAtLeastTwiceRisk ==
    (signals # Null /\ signal.action # "WAIT" /\ ~args.currentPrice.nan
        /\ args.currentPrice.v > 0) =>
        LET entry == args.currentPrice.v * PriceScale
        IN  Abs(Val(signal.takeProfit) - entry) >= 2 * Abs(entry - Val(signal.stopLoss))

\* C3: a BUY or SELL result has riskReward 2 or 3 and non-null entryZone,
\* stopLoss and takeProfit; a WAIT result has confidence 0 and entryZone,
\* stopLoss, takeProfit and riskReward all null.
C3_SignalShape ==
    signals # Null =>
        /\ signal.action \in {"BUY", "SELL", "WAIT"}
        /\ signal.action \in {"BUY", "SELL"} =>
              /\ signal.riskReward \in {Some(2), Some(3)}
              /\ signal.entryZone # Null
              /\ signal.stopLoss # Null
              /\ signal.takeProfit # Null
        /\ signal.action = "WAIT" =>
              /\ signal.confidence.num = 0
              /\ signal.entryZone = Null
              /\ signal.stopLoss = Null
              /\ signal.takeProfit = Null
              /\ signal.riskReward = Null

\* a SELL taken at a fair value gap, fully populated, was returned
C3_Witness ==
    /\ signals # Null
    /\ signal.action = "SELL"
    /\ signal.riskReward = Some(2)
    /\ args.orderBlocks.bearish # <<>>

\* the first element of list, in list order, that satisfies Q
FirstWhere(list, Q(_)) ==
    list[CHOOSE k \in 1..Len(list) :
            Q(list[k]) /\ \A j \in 1..(k - 1) : ~Q(list[j])]

AnyWhere(list, Q(_)) == \E k \in 1..Len(list) : Q(list[k])

\* the decision of the Signal Generator stated as a priority list
priorityDecision(in) ==
    LET bull == in.htfBias = "BULLISH" /\ in.marketStructure.trend = "UPTREND"
        bear == in.htfBias = "BEARISH" /\ in.marketStructure.trend = "DOWNTREND"
        Near(ob) == priceInZone(in.currentPrice, ob)
        Inside(fvg) == priceInGap(in.currentPrice, fvg)
    IN  IF bull /\ AnyWhere(in.orderBlocks.bullish, Near)
        THEN buyAtOrderBlock(FirstWhere(in.orderBlocks.bullish, Near))
        ELSE IF bear /\ AnyWhere(in.orderBlocks.bearish, Near)
        THEN sellAtOrderBlock(FirstWhere(in.orderBlocks.bearish, Near))
        ELSE IF bull /\ AnyWhere(in.fvgZones.bullish, Inside)
        THEN buyAtGap(FirstWhere(in.fvgZones.bullish, Inside))
        ELSE IF bear /\ AnyWhere(in.fvgZones.bearish, Inside)
        THEN sellAtGap(FirstWhere(in.fvgZones.bearish, Inside))
        ELSE noSignal

\* C4: the result is the first match in the priority bullish order blocks,
\* bearish order blocks, bullish FVGs, bearish FVGs, each list scanned in
\* list order; a fair value gap decides only when no order block did.
C4_FirstMatchWins ==
    signals # Null => signal = priorityDecision(args)

\* under bullish confluence a qualifying bullish order block and a
\* qualifying bullish gap coexist, behind a block that does not qualify,
\* and the order-block signal was returned
C4_Witness ==
    /\ signals # Null
    /\ args.htfBias = "BULLISH" /\ args.marketStructure.trend = "UPTREND"
    /\ Len(args.orderBlocks.bullish) = 2
    /\ ~priceInZone(args.currentPrice, args.orderBlocks.bullish[1])
    /\ priceInZone(args.currentPrice, args.orderBlocks.bullish[2])
    /\ \E k \in 1..Len(args.fvgZones.bullish) :
          priceInGap(args.currentPrice, args.fvgZones.bullish[k])
    /\ signal.riskReward = Some(3)

\* C5: BUY is returned only if bias = BULLISH and trend = UPTREND, SELL only
\* if bias = BEARISH and trend = DOWNTREND; every other combination of bias
\* and trend gives WAIT.
C5_ConfluenceRequired ==
    signals # Null =>
        /\ signal.action = "BUY" =>
              args.htfBias = "BULLISH" /\ args.marketStructure.trend = "UPTREND"
        /\ signal.action = "SELL" =>
              args.htfBias = "BEARISH" /\ args.marketStructure.trend = "DOWNTREND"

\* bias and trend disagree while the price sits at an order block and in a
\* gap of both kinds, and WAIT was returned
C5_Witness ==
    /\ signals # Null
    /\ args.htfBias = "BULLISH" /\ args.marketStructure.trend = "DOWNTREND"
    /\ AnyWhere(args.orderBlocks.bullish, LAMBDA ob : priceInZone(args.currentPrice, ob))
    /\ AnyWhere(args.orderBlocks.bearish, LAMBDA ob : priceInZone(args.currentPrice, ob))
    /\ AnyWhere(args.fvgZones.bullish, LAMBDA z : priceInGap(args.currentPrice, z))
    /\ AnyWhere(args.fvgZones.bearish, LAMBDA z : priceInGap(args.currentPrice, z))
    /\ signal.action = "WAIT"

\* the elements of a finite set of indices in ascending order
RECURSIVE Ascending(_)
Ascending(S) ==
    IF S = {} THEN <<>>
    ELSE LET m == CHOOSE x \in S : \A y \in S : x <= y
         IN  <<m>> \o Ascending(S \ {m})

\* F at the cap greatest indices of S (at all of them if there are fewer),
\* in ascending order of index
MostRecent(S, cap, F(_)) ==
    LET idx == Ascending(S)
        n == Len(idx)
        m == Min2(cap, n)
    IN  [k \in 1..m |-> F(idx[n - m + k])]

\* the indices at which each kind of detection happens in a sequence
resistanceAt(c) ==
    {i \in lookback..(Len(c) - lookback - 1) : isSignificant(Highs(c), i, TRUE)}
supportAt(c) ==
    {i \in lookback..(Len(c) - lookback - 1) : isSignificant(Lows(c), i, FALSE)}
orderBlockAt(c, i) == isMomentumCandle(c, i) /\ strongMove(c, i)
bullishOBAt(c) ==
    {i \in 5..(Len(c) - 6) : At(c, i).close < At(c, i).open /\ orderBlockAt(c, i)}
bearishOBAt(c) ==
    {i \in 5..(Len(c) - 6) : ~(At(c, i).close < At(c, i).open) /\ orderBlockAt(c, i)}
bullishFVGAt(c) == {i \in 1..(Len(c) - 2) : bullishGapAt(c, i)}
bearishFVGAt(c) == {i \in 1..(Len(c) - 2) : bearishGapAt(c, i)}

\* C6: the order block and FVG lists have at most 3 elements per direction
\* and the level lists at most 5, and each list is the most recent
\* detections of its kind, in detection order.
C6_ListsAreMostRecent ==
    det # Null =>
        LET c == candlesSeen
        IN  /\ Len(results.keyLevels.resistance) <= 5
            /\ Len(results.keyLevels.support) <= 5
            /\ Len(results.orderBlocks.bullish) <= 3
            /\ Len(results.orderBlocks.bearish) <= 3
            /\ Len(results.fvgZones.bullish) <= 3
            /\ Len(results.fvgZones.bearish) <= 3
            /\ results.keyLevels.resistance =
                 MostRecent(resistanceAt(c), 5, LAMBDA i : At(c, i).high)
            /\ results.keyLevels.support =
                 MostRecent(supportAt(c), 5, LAMBDA i : At(c, i).low)
            /\ results.orderBlocks.bullish =
                 MostRecent(bullishOBAt(c), 3, LAMBDA i : bullishOB(c, i))
            /\ results.orderBlocks.bearish =
                 MostRecent(bearishOBAt(c), 3, LAMBDA i : bearishOB(c, i))
            /\ results.fvgZones.bullish =
                 MostRecent(bullishFVGAt(c), 3,
                    LAMBDA i : [high |-> At(c, i + 1).low, low |-> At(c, i - 1).high])
            /\ results.fvgZones.bearish =
                 MostRecent(bearishFVGAt(c), 3,
                    LAMBDA i : [high |-> At(c, i - 1).low, low |-> At(c, i + 1).high])

\* the components ran on a sequence with more than 5 resistance levels,
\* more than 3 order blocks and more than 3 gaps of one direction
C6_Witness ==
    /\ det # Null
    /\ Cardinality(resistanceAt(candlesSeen)) > 5
    /\ Cardinality(bullishOBAt(candlesSeen)) > 3
    /\ Cardinality(bearishFVGAt(candlesSeen)) > 3

\* C9: on short input the components return their fallback values:
\* NEUTRAL bias below 10 candles, no levels and no order blocks below 11
\* candles, no fair value gaps below 3 candles.
C9_ShortInputFallbacks ==
    det # Null =>
        LET n == Len(candlesSeen)
        IN  /\ n < 10 => results.htfBias = "NEUTRAL"
            /\ n < 11 =>
                  /\ results.keyLevels.support = <<>>
                  /\ results.keyLevels.resistance = <<>>
                  /\ results.orderBlocks.bullish = <<>>
                  /\ results.orderBlocks.bearish = <<>>
            /\ n < 3 =>
                  /\ results.fvgZones.bullish = <<>>
                  /\ results.fvgZones.bearish = <<>>

\* the components ran on 9 candles whose highs and lows all rise: the bias
\* is the fallback although gaps were found
C9_Witness ==
    /\ det # Null
    /\ Len(candlesSeen) = 9
    /\ \A k \in 2..9 : candlesSeen[k].high > candlesSeen[k - 1].high
                       /\ candlesSeen[k].low > candlesSeen[k - 1].low
    /\ results.fvgZones.bullish # <<>>
    /\ results.htfBias = "NEUTRAL"

\* how the fetches of the finished analyze request were answered
analyzeDone == pc = "done" /\ req = Some("analyze")
someFetchFailed == \E k \in 1..Len(fetched) : fetched[k].status # "2xx"

\* C7: if either fetch of performFullAnalysis fails, no analysis is
\* produced and execute returns {success: false, data: null, error}; the
\* components run only after both fetches succeeded, and no result exists
\* before execute has returned.
C7_FetchFailureFailsFast ==
    /\ pc # "done" => output = Null
    /\ pc = "done" => output # Null
    /\ (analyzeDone /\ someFetchFailed) =>
          /\ output.success = FALSE
          /\ output.data = Null
          /\ DOMAIN output = {"success", "data", "error"}
          /\ output.error # Null
    /\ (analyzeDone /\ output.success) =>
          /\ Len(fetched) = 2
          /\ fetched[1].endpoint = "ticker" /\ fetched[1].status = "2xx"
          /\ fetched[2].endpoint = "klines" /\ fetched[2].status = "2xx"

\* the price was fetched, the candle fetch then failed, and execute
\* returned the failure
C7_Witness ==
    /\ analyzeDone
    /\ Len(fetched) = 2
    /\ fetched[1].status = "2xx"
    /\ fetched[2].status = "non2xx"
    /\ Len(market) >= 20
    /\ output.success = FALSE

\* a ticker answer that is a failure of the price feed: a non-2xx or
\* rejected fetch, or a 2xx body with a missing or non-numeric field
malformedTicker(body) ==
    \E f \in {"lastPrice", "priceChangePercent", "highPrice", "lowPrice", "volume"} :
        body[f].kind # "number"
priceFeedFailed(a) == a.status # "2xx" \/ malformedTicker(Val(a.body))

\* C8: a price-feed failure of either kind (non-2xx, malformed payload)
\* aborts the analysis with a price-fetch error, and no analysis is
\* returned with a NaN current price.
C8_PriceFailureAborts ==
    /\ (req = Some("analyze") /\ fetched # <<>> /\ priceFeedFailed(fetched[1])) =>
          /\ pc = "done"
          /\ output.success = FALSE
          /\ \E k \in 1..Len(Val(output.error)) :
                Val(output.error)[k] = "Price fetch failed"
    /\ priceData # Null => ~Val(Val(priceData).data).price.nan
    /\ (analyzeDone /\ output.success) => ~Val(output.data).currentPrice.nan

\* C10: the FVG Detector emits, for each consecutive triple, one bullish
\* zone {high: next.low, low: prev.high} iff next.low - prev.high is
\* strictly greater than 10% of the average range of the three candles, and
\* one bearish zone {high: prev.low, low: next.high} iff prev.low -
\* next.high is; the returned lists are the last three zones emitted.
avgRange3(c, i) ==
    (At(c, i - 1).high - At(c, i - 1).low) + (At(c, i).high - At(c, i).low)
        + (At(c, i + 1).high - At(c, i + 1).low)
bullishGapSize(c, i) == At(c, i + 1).low - At(c, i - 1).high
bearishGapSize(c, i) == At(c, i - 1).low - At(c, i + 1).high

C10_GapIffAboveTenPercent ==
    det # Null =>
        LET c == candlesSeen
            triples == 1..(Len(c) - 2)
        IN  /\ results.fvgZones.bullish =
                 MostRecent({i \in triples : 30 * bullishGapSize(c, i) > avgRange3(c, i)},
                    3, LAMBDA i : [high |-> At(c, i + 1).low, low |-> At(c, i - 1).high])
            /\ results.fvgZones.bearish =
                 MostRecent({i \in triples : 30 * bearishGapSize(c, i) > avgRange3(c, i)},
                    3, LAMBDA i : [high |-> At(c, i - 1).low, low |-> At(c, i + 1).high])

\* the detector ran on a sequence with a bullish gap of exactly 10% of the
\* average range, a bearish gap of exactly 10%, and one accepted gap of
\* either direction
C10_Witness ==
    /\ det # Null
    /\ \E i \in 1..(Len(candlesSeen) - 2) :
          30 * bullishGapSize(candlesSeen, i) = avgRange3(candlesSeen, i)
    /\ \E i \in 1..(Len(candlesSeen) - 2) :
          30 * bearishGapSize(candlesSeen, i) = avgRange3(candlesSeen, i)
    /\ Len(results.fvgZones.bullish) + Len(results.fvgZones.bearish) = 1

\* the indices with 5 neighbours on both sides whose high is strictly above,
\* or whose low strictly below, every other one within 5 places
strictMaxAt(c) ==
    {i \in 5..(Len(c) - 6) :
        \A j \in (i - 5)..(i + 5) : j # i => At(c, j).high < At(c, i).high}
strictMinAt(c) ==
    {i \in 5..(Len(c) - 6) :
        \A j \in (i - 5)..(i + 5) : j # i => At(c, j).low > At(c, i).low}

\* an index whose high is matched, but not exceeded, within 5 places
tiedMaxAt(c) ==
    {i \in 5..(Len(c) - 6) :
        /\ \A j \in (i - 5)..(i + 5) : At(c, j).high <= At(c, i).high
        /\ \E j \in (i - 5)..(i + 5) : j # i /\ At(c, j).high = At(c, i).high}

risingHighs(c) == \A k \in 2..Len(c) : c[k].high > c[k - 1].high

\* C11: the level finder reports the prices at exactly the indices i with
\* 5 <= i < n - 5 whose price is strictly greater (resistance) or strictly
\* smaller (support) than every other price in [i - 5, i + 5], the last 5
\* of them; so strictly rising highs give no resistance level, and a single
\* spike above all others in its window is reported as the resistance.
C11_StrictLocalExtremes ==
    det # Null =>
        LET c == candlesSeen
        IN  /\ results.keyLevels.resistance =
                 MostRecent(strictMaxAt(c), 5, LAMBDA i : At(c, i).high)
            /\ results.keyLevels.support =
                 MostRecent(strictMinAt(c), 5, LAMBDA i : At(c, i).low)
            /\ risingHighs(c) => results.keyLevels.resistance = <<>>
            /\ \A i \in strictMaxAt(c) :
                  strictMaxAt(c) = {i} =>
                      results.keyLevels.resistance = <<At(c, i).high>>

\* the level finder ran on a sequence with a single downward spike, which
\* it reported as the support, and with a tied maximum, which it did not
\* report
C11_Witness ==
    /\ det # Null
    /\ Cardinality(strictMinAt(candlesSeen)) = 1
    /\ Len(results.keyLevels.support) = 1
    /\ tiedMaxAt(candlesSeen) # {}
    /\ results.keyLevels.resistance = <<>>

\* the candles and the price a finished, successful analyze request saw
analysed == analyzeDone /\ output.success
analysedCandles ==
    LET klines == Val(fetched[2].body)
    IN  SliceFrom([k \in 1..Len(klines) |-> toCandle(klines[k])], -50)
analysis == Val(output.data)

\* highs and lows rise from candle to candle, all bodies are equal, and no
\* candle's range is left clear by the candle two places before or after
steadyRise(c) ==
    /\ \A k \in 2..Len(c) : /\ c[k].high > c[k - 1].high
                            /\ c[k].low > c[k - 1].low
                            /\ Body(c[k]) = Body(c[1])
    /\ \A k \in 3..Len(c) : /\ ~(c[k].low > c[k - 2].high)
                            /\ ~(c[k].high < c[k - 2].low)

\* C12: an analysis of 25 candles whose highs and lows strictly increase,
\* with equal bodies and no three-candle gap, at a current price equal to
\* the last close, has bias BULLISH, trend UPTREND, empty order block and
\* fair value gap lists and the signal WAIT with confidence 0 and entryZone,
\* stopLoss, takeProfit and riskReward null.
C12_SteadyRiseWaits ==
    (/\ analysed
     /\ Len(analysedCandles) = 25
     /\ steadyRise(analysedCandles)
     /\ analysis.currentPrice = Num(analysedCandles[25].close)) =>
        /\ analysis.htfBias = "BULLISH"
        /\ analysis.marketStructure.trend = "UPTREND"
        /\ analysis.orderBlocks = [bullish |-> <<>>, bearish |-> <<>>]
        /\ analysis.fvgZones = [bullish |-> <<>>, bearish |-> <<>>]
        /\ analysis.signals.action = "WAIT"
        /\ analysis.signals.confidence.num = 0
        /\ analysis.signals.entryZone = Null
        /\ analysis.signals.stopLoss = Null
        /\ analysis.signals.takeProfit = Null
        /\ analysis.signals.riskReward = Null

\* such an analysis was returned
C12_Witness ==
    /\ analysed
    /\ Len(analysedCandles) = 25
    /\ steadyRise(analysedCandles)
    /\ analysis.currentPrice = Num(analysedCandles[25].close)
    /\ analysis.signals.action = "WAIT"

\* over the consecutive pairs of the most recent 10 candles: how often f
\* rose and how often it fell, an unchanged value counting as neither
rises(c, f(_)) ==
    LET r == SliceFrom(c, -10)
    IN  Cardinality({k \in 2..Len(r) : f(r[k]) > f(r[k - 1])})
falls(c, f(_)) ==
    LET r == SliceFrom(c, -10)
    IN  Cardinality({k \in 2..Len(r) : f(r[k]) < f(r[k - 1])})
highOf(x) == x.high
lowOf(x) == x.low

\* C13: on 10 or more candles the bias is BULLISH iff the highs rose more
\* often than they fell and the lows rose more often than they fell over
\* the 9 pairs of the last 10 candles, BEARISH iff both fell more often than
\* they rose, and NEUTRAL otherwise, an unchanged high or low counting as
\* neither; a flat series is NEUTRAL.
C13_BiasCountsRisesAndFalls ==
    (det # Null /\ Len(candlesSeen) >= 10) =>
        LET c == candlesSeen
            bullish == rises(c, highOf) > falls(c, highOf)
                       /\ rises(c, lowOf) > falls(c, lowOf)
            bearish == falls(c, highOf) > rises(c, highOf)
                       /\ falls(c, lowOf) > rises(c, lowOf)
        IN  /\ results.htfBias = "BULLISH" <=> bullish
            /\ results.htfBias = "BEARISH" <=> bearish
            /\ results.htfBias = "NEUTRAL" <=> (~bullish /\ ~bearish)

\* the body of candle i (0-based) exceeds 1.5 times the mean body of the
\* ten candles i - 5 .. i + 4
bigBody(c, i) ==
    LET w == SubSeq(c, i - 4, i + 5)
    IN  20 * Body(At(c, i)) > 3 * SumSeq([k \in 1..10 |-> Body(w[k])])

\* the candles with 5 candles before and 5 after them that have such a body
bigBodyAt(c) == {i \in 5..(Len(c) - 6) : bigBody(c, i)}

\* a bearish candle followed within 3 candles by a low under 0.98 of its
\* low; a bullish candle followed within 3 candles by a high over 1.02 of
\* its high
confirmedDownAt(c) ==
    {i \in 5..(Len(c) - 6) :
        /\ At(c, i).close < At(c, i).open
        /\ \E k \in 1..3 : 100 * At(c, i + k).low < 98 * At(c, i).low
        /\ bigBody(c, i)}
confirmedUpAt(c) ==
    {i \in 5..(Len(c) - 6) :
        /\ At(c, i).close > At(c, i).open
        /\ \E k \in 1..3 : 100 * At(c, i + k).high > 102 * At(c, i).high
        /\ bigBody(c, i)}

\* a reported block has twice the price p2 and the strength body / (sum / 10)
isBlock(b, p2, body, sum) ==
    b.price = p2 /\ b.strength.num * sum = 10 * body * b.strength.den

\* the list is the blocks of the last 3 indices of S, in order
blocksOf(list, S, c, P2(_)) ==
    LET idx == MostRecent(S, 3, LAMBDA i : i)
    IN  /\ Len(list) = Len(idx)
        /\ \A k \in 1..Len(idx) :
              isBlock(list[k], P2(At(c, idx[k])), Body(At(c, idx[k])),
                      SumSeq([j \in 1..10 |-> Body(c[idx[k] - 5 + j])]))

\* C14: a block is reported for candle i iff 5 <= i < n - 5, its body is
\* strictly greater than 1.5 times the mean body of its 10-candle window and
\* one of the next 3 candles confirms it: a bearish candle confirmed by a
\* low < 0.98 x its low gives a bullish block at (open + low) / 2, a bullish
\* candle confirmed by a high > 1.02 x its high gives a bearish block at
\* (open + high) / 2, both with strength body / window mean body (the lists
\* keep the last 3); a candle with close = open gives no block.
C14_OrderBlockIff ==
    det # Null =>
        LET c == candlesSeen
        IN  /\ blocksOf(results.orderBlocks.bullish, confirmedDownAt(c), c,
                        LAMBDA x : x.open + x.low)
            /\ blocksOf(results.orderBlocks.bearish, confirmedUpAt(c), c,
                        LAMBDA x : x.open + x.high)
            /\ \A i \in confirmedDownAt(c) \cup confirmedUpAt(c) :
                  At(c, i).close # At(c, i).open

\* blocks of both kinds were reported for a sequence that also has a big
\* candle left unconfirmed and one confirmed only by the second or third
\* candle after it
C14_Witness ==
    /\ det # Null
    /\ results.orderBlocks.bullish # <<>>
    /\ results.orderBlocks.bearish # <<>>
    /\ bigBodyAt(candlesSeen) \ (confirmedDownAt(candlesSeen) \cup confirmedUpAt(candlesSeen)) # {}
    /\ \E i \in confirmedDownAt(candlesSeen) :
          ~(100 * At(candlesSeen, i + 1).low < 98 * At(candlesSeen, i).low)

\* in the window r, the high at index i (0-based) is above the 5 highs
\* before it; the low at index i is below the 5 lows before it
upBreak(r, i) == \A j \in (i - 5)..(i - 1) : At(r, j).high < At(r, i).high
downBreak(r, i) == \A j \in (i - 5)..(i - 1) : At(r, j).low > At(r, i).low
breaksAt(r) == {i \in 5..14 : upBreak(r, i) \/ downBreak(r, i)}
lastBreak(r) == CHOOSE i \in breaksAt(r) : \A j \in breaksAt(r) : j <= i

\* C15: on 20 or more candles, lastCHOCH is decided by the greatest index
\* in 5..14 of the last-20 window at which the high exceeds the previous 5
\* highs or the low undercuts the previous 5 lows: 'Bullish CHOCH' iff the
\* high broke there, 'Bearish CHOCH' otherwise, and null iff no index
\* breaks.
C15_LastBreakDecides ==
    (det # Null /\ Len(candlesSeen) >= 20) =>
        LET r == SliceFrom(candlesSeen, -20)
            label == results.marketStructure.lastCHOCH
        IN  /\ label = Null <=> breaksAt(r) = {}
            /\ breaksAt(r) # {} =>
                  label = Some(IF upBreak(r, lastBreak(r)) THEN "Bullish CHOCH"
                               ELSE "Bearish CHOCH")

\* the scan met an upward break and, at a later index, a last break that
\* was downward only, and reported the later one
C15_Witness ==
    /\ det # Null /\ Len(candlesSeen) >= 20
    /\ LET r == SliceFrom(candlesSeen, -20)
       IN  /\ \E i \in breaksAt(r) : i < lastBreak(r) /\ upBreak(r, i)
           /\ ~upBreak(r, lastBreak(r))
    /\ results.marketStructure.lastCHOCH = Some("Bearish CHOCH")

\* the current price of a direct call, in PriceScale units, and whether it
\* lies in the returned entry zone
priceUnits == args.currentPrice.v * PriceScale
priceInEntryZone ==
    /\ ~args.currentPrice.nan
    /\ Val(signal.entryZone).low <= priceUnits
    /\ priceUnits <= Val(signal.entryZone).high

\* the signal came from an order block (riskReward 3) or from a gap (2)
fromOrderBlock == signal.action # "WAIT" /\ signal.riskReward = Some(3)
fromGap == signal.action # "WAIT" /\ signal.riskReward = Some(2)

\* the list the signal's zone was taken from
blocksTried ==
    IF signal.action = "BUY" THEN args.orderBlocks.bullish
    ELSE args.orderBlocks.bearish

\* C16: for every non-WAIT signal the current price lies inside the
\* returned entry zone, entryZone.low <= currentPrice <= entryZone.high.
C16_PriceInsideEntryZone ==
    (signals # Null /\ signal.action # "WAIT") => priceInEntryZone

\* C16 as amended: for a signal from a fair value gap the current price
\* lies inside the returned entry zone; for a signal from an order block the
\* entry zone is [price x 0.999, price x 1.001] around the price of a block
\* with |currentPrice - price| / currentPrice < 0.002 (the drawn prices
\* are positive, so the quotient is compared cross-multiplied, the block
\* price p2 being in half-ticks).
C16_PriceNearEntryZone ==
    (signals # Null /\ signal.action # "WAIT") =>
        /\ fromOrderBlock \/ fromGap
        /\ fromGap => priceInEntryZone
        /\ fromOrderBlock =>
              /\ ~args.currentPrice.nan
              /\ \E k \in 1..Len(blocksTried) :
                    LET p2 == blocksTried[k].price
                    IN  /\ Val(signal.entryZone) =
                             [high |-> p2 * 1001, low |-> p2 * 999]
                        /\ 1000 * Abs(2 * args.currentPrice.v - p2)
                              < 2 * 2 * args.currentPrice.v

\* a signal was taken from an order block whose entry band the current
\* price lies below
C16_Witness ==
    /\ signals # Null
    /\ fromOrderBlock
    /\ priceUnits < Val(signal.entryZone).low

\* the order blocks reported for the candles seen
blocksReported ==
    {results.orderBlocks.bullish[k] : k \in 1..Len(results.orderBlocks.bullish)}
        \cup {results.orderBlocks.bearish[k] : k \in 1..Len(results.orderBlocks.bearish)}

\* current prices the ticker may report with these candles: the last close
\* and the price of each reported block (block prices are in half-ticks)
pricesTried ==
    {technicalCurrentPrice(market)}
        \cup {b.price \div 2 : b \in {x \in blocksReported : x.price % 2 = 0}}

\* the signal generateTradingSignals derives from the reported zones at the
\* current price p under the given bias and trend, and the one
\* performFullAnalysis derives for these candles at p
signalFor(p, bias, trend) ==
    generateTradingSignals(Num(p), bias, results.orderBlocks, results.fvgZones,
                           [results.marketStructure EXCEPT !.trend = trend])
signalAt(p) == signalFor(p, results.htfBias, results.marketStructure.trend)

\* C17: every reported order block has strength strictly greater than 1.5
\* and at most 10 (its window's mean body is positive), every signal taken
\* from a reported order block has confidence strictly greater than 75 and
\* at most 90, and every signal's confidence lies in 0..100.
C17_StrengthAndConfidenceRanges ==
    det # Null =>
        /\ \A b \in blocksReported :
              /\ b.strength.den > 0
              /\ 2 * b.strength.num > 3 * b.strength.den
              /\ b.strength.num <= 10 * b.strength.den
        /\ \A p \in pricesTried, bias \in Biases, trend \in Trends :
              LET s == signalFor(p, bias, trend)
              IN  /\ s.confidence.den > 0
                  /\ 0 <= s.confidence.num
                  /\ s.confidence.num <= 100 * s.confidence.den
                  /\ s.riskReward = Some(3) =>
                        /\ s.confidence.num > 75 * s.confidence.den
                        /\ s.confidence.num <= 90 * s.confidence.den

\* a block was reported and, at its price, the analysis of these candles
\* gives a signal taken from it, with a confidence between 75 and 90
C17_Witness ==
    /\ det # Null
    /\ \E b \in blocksReported :
          /\ b.price % 2 = 0
          /\ signalAt(b.price \div 2).riskReward = Some(3)
          /\ signalAt(b.price \div 2).confidence.num
                < 90 * signalAt(b.price \div 2).confidence.den

\* the drawn zones and the current price are all positive
positivePrices ==
    /\ ~args.currentPrice.nan /\ args.currentPrice.v > 0
    /\ \A d \in {"bullish", "bearish"} :
          /\ \A k \in 1..Len(args.orderBlocks[d]) : args.orderBlocks[d][k].price > 0
          /\ \A k \in 1..Len(args.fvgZones[d]) :
                args.fvgZones[d][k].low > 0 /\ args.fvgZones[d][k].high > 0

\* C18: for positive prices every BUY signal has
\* stopLoss < entryZone.low <= entryZone.high < takeProfit and every SELL
\* signal has takeProfit < entryZone.low <= entryZone.high < stopLoss,
\* whether it was taken from an order block or from a gap.
C18_StopEntryTargetOrdered ==
    (signals # Null /\ positivePrices /\ signal.action # "WAIT") =>
        LET zone == Val(signal.entryZone)
            stop == Val(signal.stopLoss)
            target == Val(signal.takeProfit)
        IN  /\ zone.low <= zone.high
            /\ signal.action = "BUY" => stop < zone.low /\ zone.high < target
            /\ signal.action = "SELL" => target < zone.low /\ zone.high < stop

\* a SELL was taken from a gap although the lists held order blocks
C18_Witness ==
    /\ signals # Null /\ positivePrices
    /\ signal.action = "SELL"
    /\ fromGap
    /\ args.orderBlocks.bearish # <<>>
    /\ Val(signal.stopLoss) > Val(signal.entryZone).high

=========================================================================
